---- MODULE Spec2Model ----
(***************************************************************************)
(* Model of the browser proxy service (browser.ts, types.ts): the single   *)
(* browser context, the page registry `pages`, the command dispatcher      *)
(* executeCommand, the HTTP handler in front of it and shutdown().         *)
(*                                                                         *)
(* JavaScript runs handlers to completion between awaits, so every action  *)
(* below is one synchronous segment of the code: from the event that       *)
(* resumes it up to the next await (or the return).  The browser engine is *)
(* outside the program: it evaluates a call at some moment (the *Eval      *)
(* actions, and the outcome parameters `ok`) and its events and answers    *)
(* reach the client in the order it produced them (the queue `chan`).      *)
(***************************************************************************)
EXTENDS Integers, Sequences, FiniteSets, TLC

\* ---------------------------------------------------------------- bounds
\* commands posted in one run (each may be in flight together with the others)
MaxReq == 2

Reqs == 1..MaxReq
\* the pages a run can create: the default page and one per command
Handles == 1..(MaxReq + 1)
\* `undefined`: no page handle
NoPage == 0
\* the identifiers clients use in this model
PageIds == {"default", "tab1", "tab2"}
NoId == "-"
\* the signals with a listener that runs shutdown()
Signals == {"SIGINT", "SIGTERM"}

\* ------------------------------------------------------- command schema
Actions ==
  {"goto", "click", "fill", "screenshot", "content", "title", "evaluate", "closePage"}

\* a schema whose fill variant asks for the selector only
Required_partial(a) ==
  CASE a = "goto" -> {"url"}
    [] a = "click" -> {"selector"}
    [] a = "fill" -> {"selector"}
    [] a = "evaluate" -> {"expression"}
    [] OTHER -> {}

\* the fields each variant of browserCommandSchema requires (non-optional)
Required(a) ==
  CASE a = "goto" -> {"url"}
    [] a = "click" -> {"selector"}
    [] a = "fill" -> {"selector", "text"}
    [] a = "evaluate" -> {"expression"}
    [] OTHER -> {}

\* request bodies: text that is no JSON, or an object with an action tag
\* (possibly absent or unknown) and some of the fields
\* no body read
NoBody == [json |-> FALSE, action |-> "-", fields |-> {}]
Bodies ==
  {[json |-> FALSE, action |-> "none", fields |-> {}]} \cup
  UNION {{[json |-> TRUE, action |-> a, fields |-> f] : f \in SUBSET Required(a)} :
           a \in Actions \cup {"none", "hover"}}

\* a validation that takes any JSON body for a command
safeParse_anyJson(body) == body.json

\* z.discriminatedUnion("action", [...]).safeParse(body).success
safeParse(body) ==
  /\ body.action \in Actions
  /\ Required(body.action) \subseteq body.fields

\* --------------------------------------------------------- HTTP requests
\* the configured secret
BROWSER_API_TOKEN == "s3cret"
NoHeader == [scheme |-> "-", rest |-> "-"]
\* Authorization headers: none, or `<scheme><rest>`
AuthHeaders ==
  {NoHeader} \cup
  {[scheme |-> "Bearer ", rest |-> BROWSER_API_TOKEN], [scheme |-> "Bearer ", rest |-> "wrong"],
   [scheme |-> "Bearer ", rest |-> ""], [scheme |-> "Basic ", rest |-> BROWSER_API_TOKEN],
   [scheme |-> "bearer ", rest |-> BROWSER_API_TOKEN]}

\* the token the gate extracts: authHeader?.startsWith('Bearer ') ? slice(7) : null
bearerToken(h) == IF h # NoHeader /\ h.scheme = "Bearer " THEN h.rest ELSE ""

\* a gate that only asks for some token
tokenRejected_lax(h) == bearerToken(h) = ""

\* !token || token !== config.BROWSER_API_TOKEN
tokenRejected(h) == bearerToken(h) = "" \/ bearerToken(h) # BROWSER_API_TOKEN

\* a path is the sequence of its segments: <<"api","browser","tab1">> is
\* /api/browser/tab1
Paths ==
  { <<"api", "browser", "default">>, <<"api", "browser", "tab1">>,
    <<"api", "browser", "tab2">>, <<"api", "browser", "pages">>,
    <<"api", "browser", "tab1", "extra">>, <<"x", "api", "browser", "tab1">>,
    <<"api", "browser">>, <<"api", "status">>, <<"health">> }

\* path.startsWith('/api/')
startsWithApi(path) == Len(path) >= 2 /\ path[1] = "api"

\* the positions where /\/api\/browser\/([^\/]+)/ matches (the regular
\* expression is not anchored)
matchAt(path) ==
  {i \in 1..Len(path) :
     /\ i + 2 <= Len(path)
     /\ path[i] = "api"
     /\ path[i + 1] = "browser"
     /\ path[i + 2] # ""}

\* path.match(/\/api\/browser\/([^\/]+)/)
pathMatches(path) == matchAt(path) # {}

\* const [, pageId] = matches : the capture of the leftmost match
matchedPageId(path) ==
  LET i == CHOOSE j \in matchAt(path) : \A k \in matchAt(path) : j <= k
  IN  path[i + 2]

\* path === "/api/browser/pages"
isPagesPath(path) == path = <<"api", "browser", "pages">>

NoRequest == [method |-> "-", path |-> <<>>, auth |-> NoHeader]
AllRequests ==
  {q \in [method : {"GET", "POST"}, path : Paths, auth : AuthHeaders] :
     (q.method = "POST" /\ pathMatches(q.path)) => matchedPageId(q.path) \in PageIds}

VARIABLES
  boot,            \* module start-up: setupBrowser and Deno.serve
  browserContext,  \* the module variable: TRUE when it holds a context
  ctxState,        \* the context in the browser: "none", "open", "closed"
  launches,        \* how many contexts launchPersistentContext has started
  pages,           \* the registry: identifier -> handle (NoPage: no entry)
  page,            \* every page the browser created: state and close listener
  isShuttingDown,  \* the module flag
  sd,              \* where shutdown() stands
  req,             \* the HTTP requests in flight
  chan,            \* events and answers the browser has sent and the client not yet seen
  resp,            \* what the handler that just ran answered (observed, then acknowledged)
  call             \* a function called on its own: its arguments and what it returned

vars == <<boot, browserContext, ctxState, launches, pages, page, isShuttingDown,
          sd, req, chan, resp, call>>

\* via: how getOrCreatePage came to the page it returned ("reuse" of the
\* registry entry, "create" for an identifier without entry, "replace" of an
\* entry whose probe failed)
IdleReq == [pc |-> "idle", id |-> NoId, act |-> "-", h |-> NoPage, via |-> "-"]
\* a request that has been answered
DoneReq == [IdleReq EXCEPT !.pc = "done"]
NoResp == [k |-> "none", r |-> 0, status |-> 0, success |-> FALSE, error |-> "-",
           q |-> NoRequest, body |-> NoBody, id |-> NoId, act |-> "-",
           list |-> {}, dispatched |-> FALSE, via |-> "-"]
\* init: how often initializePage was called with the page; reg: the page
\* has been inserted into the registry
NoPageRec == [st |-> "none", lis |-> NoId, cmd |-> FALSE, init |-> 0, reg |-> FALSE]
\* pending: the pages that were in the registry when shutdown() began and
\* whose close() the sweep has not called (kept until the context is closed)
IdleSd == [pc |-> "none", todo |-> {}, cur |-> NoId, h |-> NoPage, pending |-> {}]
\* no function called on its own
NoCall == [f |-> "-"]

\* Object.keys(pages)
Keys(pgs) == {id \in PageIds : pgs[id] # NoPage}

\* the process has not exited
Alive == boot # "crashed" /\ sd.pc # "exited"
\* no response is on its way out: the event loop is free to run a handler
Quiet == Alive /\ resp.k = "none"

\* a handle the browser has not used yet
Fresh == {h \in Handles : page[h].st = "none" /\ \A g \in Handles : g < h => page[g].st # "none"}

Init ==
  /\ boot = "start"
  /\ browserContext = FALSE
  /\ ctxState = "none"
  /\ launches = 0
  /\ pages = [id \in PageIds |-> NoPage]
  /\ page = [h \in Handles |-> NoPageRec]
  /\ isShuttingDown = FALSE
  /\ sd = IdleSd
  /\ req = [r \in Reqs |-> IdleReq]
  /\ chan = <<>>
  /\ resp = NoResp
  /\ call = NoCall

\* ------------------------------------------------------------- helpers
\* the HTTP response of request r
Response(r, status, success, error) ==
  [NoResp EXCEPT !.k = "response", !.r = r, !.status = status,
                 !.success = success, !.error = error]

\* an executeCommand that lets a failure escape instead of returning it
Envelope_thrown(r, success, error) ==
  IF success
  THEN [Response(r, 200, success, error) EXCEPT !.id = req[r].id, !.act = req[r].act,
                                                !.dispatched = TRUE, !.via = req[r].via]
  ELSE [NoResp EXCEPT !.k = "thrown", !.r = r, !.error = error]

\* the envelope executeCommand returns, sent with status 200 by the handler
Envelope(r, success, error) ==
  [Response(r, 200, success, error) EXCEPT !.id = req[r].id, !.act = req[r].act,
                                           !.dispatched = TRUE, !.via = req[r].via]

\* the close listener of page h: delete pages[pageId]
onClose(pgs, h) ==
  IF page[h].lis = NoId THEN pgs ELSE [pgs EXCEPT ![page[h].lis] = NoPage]

\* the browser closes page h: its state afterwards
closedPage(h) ==
  IF page[h].st = "open" THEN [page[h] EXCEPT !.st = "closed"] ELSE page[h]

\* page h closed and its close event delivered: the listener has run and is gone
closedQuietly(h) ==
  IF page[h].st = "open" THEN [page[h] EXCEPT !.st = "closed", !.lis = NoId] ELSE page[h]

\* the close event the browser sends for page h, if h has a listener and was open
closeEvent(h) ==
  IF page[h].st = "open" /\ page[h].lis # NoId
  THEN <<[k |-> "close", who |-> h, ok |-> TRUE]>>
  ELSE <<>>

\* ------------------------------------------------------------- start-up
\* a setupBrowser that is called again while serving and launches again
setupBrowser_relaunch ==
  /\ Quiet
  /\ boot \in {"start", "serving"}
  /\ launches < 2
  /\ boot' = "launching"
  /\ launches' = launches + 1
  /\ UNCHANGED <<browserContext, ctxState, pages, page, isShuttingDown, sd,
                 req, chan, resp>>
  /\ UNCHANGED call

\* setupBrowser is called at module load: no context yet, so it launches one
setupBrowser ==
  /\ Quiet
  /\ boot = "start"
  /\ IF browserContext
     THEN boot' = "serving" /\ UNCHANGED launches
     ELSE boot' = "launching" /\ launches' = launches + 1
  /\ UNCHANGED <<browserContext, ctxState, pages, page, isShuttingDown, sd,
                 req, chan, resp>>
  /\ UNCHANGED call

\* launchPersistentContext resolves (ok) or rejects: a rejection is fatal
setupBrowser_launched(ok) ==
  /\ Quiet
  /\ boot = "launching"
  /\ chan = <<>>
  /\ IF ok
     THEN /\ browserContext' = TRUE
          /\ ctxState' = "open"
          /\ boot' = "defaulting"
     ELSE /\ boot' = "crashed"
          /\ UNCHANGED <<browserContext, ctxState>>
  /\ UNCHANGED <<launches, pages, page, isShuttingDown, sd, req, chan, resp>>
  /\ UNCHANGED call

\* a start-up that keeps the default page out of the registry
setupBrowser_defaultPage_unregistered(ok) ==
  /\ Quiet
  /\ boot = "defaulting"
  /\ chan = <<>>
  /\ IF ok
     THEN /\ ctxState = "open"
          /\ \E h \in Fresh :
               page' = [page EXCEPT ![h] = [NoPageRec EXCEPT !.st = "open"]]
          /\ boot' = "serving"
     ELSE /\ boot' = "crashed"
          /\ UNCHANGED page
  /\ UNCHANGED <<browserContext, ctxState, launches, pages, isShuttingDown, sd, req,
                 chan, resp>>
  /\ UNCHANGED call

\* browserContext.newPage() for the default page resolves or rejects;
\* pages.default = defaultPage, then Deno.serve
setupBrowser_defaultPage(ok) ==
  /\ Quiet
  /\ boot = "defaulting"
  /\ chan = <<>>
  /\ IF ok
     THEN /\ ctxState = "open"
          /\ \E h \in Fresh :
               /\ page' = [page EXCEPT ![h] = [NoPageRec EXCEPT !.st = "open",
                                                                  !.reg = TRUE]]
               /\ pages' = [pages EXCEPT !["default"] = h]
          /\ boot' = "serving"
     ELSE /\ boot' = "crashed"
          /\ UNCHANGED <<pages, page>>
  /\ UNCHANGED <<browserContext, ctxState, launches, isShuttingDown, sd, req,
                 chan, resp>>
  /\ UNCHANGED call

\* ---------------------------------------------------------- dispatcher
\* the switch of executeCommand on a page just returned by getOrCreatePage:
\* every branch starts with a member access on `page`, which throws a
\* TypeError when getOrCreatePage returned undefined
runAction(r, pg, via) ==
  IF pg = NoPage
  THEN /\ resp' = [Envelope(r, FALSE, "Cannot read properties of undefined") EXCEPT
                    !.via = via]
       /\ req' = [req EXCEPT ![r] = DoneReq]
  ELSE IF req[r].act = "closePage"
  THEN /\ req' = [req EXCEPT ![r].pc = "closing", ![r].h = pg, ![r].via = via]
       /\ resp' = resp
  ELSE IF req[r].act \in Actions
  THEN /\ req' = [req EXCEPT ![r].pc = "engine", ![r].h = pg, ![r].via = via]
       /\ resp' = resp
  ELSE /\ resp' = [Envelope(r, FALSE, "Unsupported action") EXCEPT !.via = via]
       /\ req' = [req EXCEPT ![r] = DoneReq]

\* a dispatcher that does not look at the flag
executeCommand_admits == FALSE

\* if (isShuttingDown) at the top of executeCommand
executeCommand_refuses == isShuttingDown

\* executeCommand(pageId, command) up to the first await of getOrCreatePage.
\* A command answered at once takes no request slot; one that goes on takes
\* slot r and is observed as accepted.
executeCommand(r, id, act, q, body) ==
  LET me == [IdleReq EXCEPT !.id = id, !.act = act]
      out(success, error) ==
        [Response(0, 200, success, error) EXCEPT !.id = id, !.act = act, !.q = q,
                                                 !.body = body, !.dispatched = TRUE]
      accepted == [out(FALSE, "-") EXCEPT !.k = "accepted", !.status = 0]
  IN
  IF executeCommand_refuses
  THEN /\ resp' = out(FALSE, "Server is shutting down")
       /\ req' = req
  ELSE IF ~browserContext
  THEN /\ resp' = out(FALSE, "Browser context not initialized")
       /\ req' = req
  ELSE IF pages[id] # NoPage
  THEN /\ req[r].pc = "idle"
       /\ req' = [req EXCEPT ![r] = [me EXCEPT !.pc = "probe", !.h = pages[id]]]
       /\ resp' = [accepted EXCEPT !.r = r]
  ELSE /\ req[r].pc = "idle"
       /\ req' = [req EXCEPT ![r] = [me EXCEPT !.pc = "newPage", !.via = "create"]]
       /\ resp' = [accepted EXCEPT !.r = r]

\* ---------------------------------------------------------- HTTP handler
\* the first free request slot of S, or slot 1 when every command of the
\* run has been posted (the request can then only be answered at once)
FirstIdle(S, r) ==
  \/ req[r].pc = "idle" /\ \A o \in S : o < r => req[o].pc # "idle"
  \/ r = 1 /\ \A o \in S : req[o].pc # "idle"

\* the request goes past the gate to the command route
commandRoute(q) ==
  /\ ~(startsWithApi(q.path) /\ tokenRejected(q.auth))
  /\ pathMatches(q.path)
  /\ q.method = "POST"

\* Deno.serve handler for request q with body text `body`: the token gate,
\* the two routes and the 404.  On the command route, req.json() throws on
\* text that is no JSON, safeParse rejects a body that is no command, and a
\* command goes to executeCommand(pageId || "default", command).  (The await
\* of req.json() reads and writes no state of the module, so the segments
\* before and after it are taken as one step; the body is read on the
\* command route only.)
handler(S, r, q, body) ==
  /\ Quiet
  /\ boot = "serving"
  /\ FirstIdle(S, r)
  /\ commandRoute(q) \/ body = NoBody
  /\ IF startsWithApi(q.path) /\ tokenRejected(q.auth)
     THEN /\ resp' = [Response(0, 401, FALSE, "Unauthorized") EXCEPT !.q = q]
          /\ req' = req
     ELSE IF pathMatches(q.path) /\ q.method = "POST"
     THEN IF ~body.json
          THEN /\ resp' = [Response(0, 400, FALSE, "SyntaxError") EXCEPT
                             !.q = q, !.body = body]
               /\ req' = req
          ELSE IF ~safeParse(body)
          THEN /\ resp' = [Response(0, 400, FALSE, "Invalid command format") EXCEPT
                             !.q = q, !.body = body]
               /\ req' = req
          ELSE executeCommand(r, IF matchedPageId(q.path) = "" THEN "default"
                                 ELSE matchedPageId(q.path),
                              body.action, q, body)
     ELSE IF isPagesPath(q.path) /\ q.method = "GET"
     THEN /\ resp' = [Response(0, 200, TRUE, "-") EXCEPT !.q = q, !.list = Keys(pages)]
          /\ req' = req
     ELSE /\ resp' = [Response(0, 404, FALSE, "Not found") EXCEPT !.q = q]
          /\ req' = req
  /\ UNCHANGED <<boot, browserContext, ctxState, launches, pages, page,
                 isShuttingDown, sd, chan>>
  /\ UNCHANGED call

\* the response has been sent (or the second shutdown() call has returned)
Ack ==
  /\ resp.k # "none"
  /\ resp' = NoResp
  /\ UNCHANGED <<boot, browserContext, ctxState, launches, pages, page,
                 isShuttingDown, sd, req, chan>>
  /\ UNCHANGED call

\* ------------------------------------------------------------ registry
\* the browser evaluates the probe page.evaluate("1") of isPageValid: it
\* succeeds on an open page and throws on a closed one
isPageValid_eval(r) ==
  /\ Quiet
  /\ req[r].pc = "probe"
  /\ req' = [req EXCEPT ![r].pc = "probed"]
  /\ chan' = Append(chan, [k |-> "probe", who |-> r, ok |-> page[req[r].h].st = "open"])
  /\ UNCHANGED <<boot, browserContext, ctxState, launches, pages, page,
                 isShuttingDown, sd, resp>>
  /\ UNCHANGED call

\* a probe that never reports a live page
isPageValid_never(m) == FALSE

\* isPageValid(page): true when the probe resolved, false when it threw
isPageValid(m) == m.ok

\* an eviction that leaves the registry as it is
delete_skipped(pgs, id) == pgs

\* delete pages[pageId] of getOrCreatePage, for an entry whose probe failed
getOrCreatePage_delete(pgs, id) == [pgs EXCEPT ![id] = NoPage]

\* a crash detection that turns the service off
invalidPage_shutsDown(flag) == TRUE

\* the branch of getOrCreatePage for an entry whose probe failed logs and
\* evicts; it leaves isShuttingDown as it is
getOrCreatePage_invalid(flag) == flag

\* getOrCreatePage resumes after `await isPageValid(pages[pageId])`:
\* valid, it returns pages[pageId] (read again) and executeCommand runs the
\* action; invalid, it deletes the entry and calls browserContext.newPage()
getOrCreatePage_probed(r) ==
  /\ Quiet
  /\ chan # <<>>
  /\ Head(chan).k = "probe"
  /\ Head(chan).who = r
  /\ chan' = Tail(chan)
  /\ IF isPageValid(Head(chan))
     THEN /\ runAction(r, pages[req[r].id], "reuse")
          /\ pages' = pages
          /\ isShuttingDown' = isShuttingDown
     ELSE /\ pages' = getOrCreatePage_delete(pages, req[r].id)
          /\ isShuttingDown' = getOrCreatePage_invalid(isShuttingDown)
          /\ req' = [req EXCEPT ![r].pc = "newPage", ![r].via = "replace",
                                ![r].h = NoPage]
          /\ resp' = resp
  /\ UNCHANGED <<boot, browserContext, ctxState, launches, page, sd>>
  /\ UNCHANGED call

\* initializePage(page) is called with the page
initializePage_called(p) == [p EXCEPT !.init = @ + 1]

\* `await browserContext.newPage()` resolves with a new page or rejects;
\* then initializePage(page) is called
getOrCreatePage_newPage(r, ok) ==
  /\ Quiet
  /\ req[r].pc = "newPage"
  /\ chan = <<>>
  /\ IF ok
     THEN /\ ctxState = "open"
          /\ \E h \in Fresh :
               /\ page' = [page EXCEPT ![h] = initializePage_called(
                                                   [NoPageRec EXCEPT !.st = "open"])]
               /\ req' = [req EXCEPT ![r].pc = "init", ![r].h = h]
          /\ resp' = resp
     ELSE /\ resp' = Envelope(r, FALSE, "newPage failed")
          /\ req' = [req EXCEPT ![r] = DoneReq]
          /\ page' = page
  /\ UNCHANGED <<boot, browserContext, ctxState, launches, pages, isShuttingDown,
                 sd, chan>>
  /\ UNCHANGED call

\* an insertion of the page the service started with
insert_defaultPage(pgs, id, h) == [pgs EXCEPT ![id] = 1]

\* an insertion that keeps the entry another request has made meanwhile
insert_ifAbsent(pgs, id, h) == IF pgs[id] = NoPage THEN [pgs EXCEPT ![id] = h] ELSE pgs

\* pages[pageId] = page
getOrCreatePage_insert(pgs, id, h) == [pgs EXCEPT ![id] = h]

\* `await initializePage(page)` resolves or rejects; resolved, the close
\* listener is attached, pages[pageId] = page, and executeCommand runs the
\* action on the page
getOrCreatePage_initialized(r, ok) ==
  /\ Quiet
  /\ req[r].pc = "init"
  /\ chan = <<>>
  /\ IF ok
     THEN /\ page[req[r].h].st = "open"
          /\ page' = [page EXCEPT ![req[r].h].lis = req[r].id, ![req[r].h].reg = TRUE]
          /\ pages' = getOrCreatePage_insert(pages, req[r].id, req[r].h)
          /\ runAction(r, req[r].h, req[r].via)
     ELSE /\ resp' = Envelope(r, FALSE, "initializePage failed")
          /\ req' = [req EXCEPT ![r] = DoneReq]
          /\ UNCHANGED <<page, pages>>
  /\ UNCHANGED <<boot, browserContext, ctxState, launches, isShuttingDown, sd, chan>>
  /\ UNCHANGED call

\* what the engine call of a command can come to: it resolves, it throws,
\* or (evaluate) it resolves with a value JSON cannot encode, a BigInt or
\* an object that contains itself
Outcomes == {"ok", "throws", "unserializable"}

\* the engine call of a goto/click/fill/screenshot/content/title/evaluate
\* command resolves or throws (it cannot succeed on a closed page) and the
\* handler sends the envelope with status 200; JSON.stringify(result) is
\* inside the handler's try, so a result it cannot encode is answered by
\* the catch with status 400
executeCommand_done(r, out) ==
  /\ Quiet
  /\ req[r].pc = "engine"
  /\ chan = <<>>
  /\ out # "throws" => page[req[r].h].st = "open"
  /\ out = "unserializable" => req[r].act = "evaluate"
  /\ resp' = CASE out = "ok" -> Envelope(r, TRUE, "-")
               [] out = "throws" -> Envelope(r, FALSE, "engine error")
               [] out = "unserializable" ->
                    [Envelope(r, FALSE, "Do not know how to serialize") EXCEPT
                       !.status = 400]
  /\ req' = [req EXCEPT ![r] = DoneReq]
  /\ UNCHANGED <<boot, browserContext, ctxState, launches, pages, page,
                 isShuttingDown, sd, chan>>
  /\ UNCHANGED call

\* the browser carries out the page.close() of a closePage command: the page
\* closes, its close event and then the answer are sent; or the call fails
closePage_eval(r, ok) ==
  /\ Quiet
  /\ req[r].pc = "closing"
  /\ req' = [req EXCEPT ![r].pc = "closed"]
  /\ IF ok
     THEN /\ page' = [page EXCEPT ![req[r].h] = closedPage(req[r].h)]
          /\ chan' = chan \o closeEvent(req[r].h)
                          \o <<[k |-> "closed", who |-> r, ok |-> TRUE]>>
     ELSE /\ page' = page
          /\ chan' = Append(chan, [k |-> "closed", who |-> r, ok |-> FALSE])
  /\ UNCHANGED <<boot, browserContext, ctxState, launches, pages, isShuttingDown,
                 sd, resp>>
  /\ UNCHANGED call

\* delete pages[pageId] of the closePage branch
closePage_delete(pgs, id) == [pgs EXCEPT ![id] = NoPage]

\* executeCommand resumes after `await page.close()`: delete pages[pageId]
\* and success, or the failure envelope when close() threw
closePage_done(r) ==
  /\ Quiet
  /\ chan # <<>>
  /\ Head(chan).k = "closed"
  /\ Head(chan).who = r
  /\ chan' = Tail(chan)
  /\ IF Head(chan).ok
     THEN /\ pages' = closePage_delete(pages, req[r].id)
          /\ page' = [page EXCEPT ![req[r].h].cmd = TRUE]
          /\ resp' = Envelope(r, TRUE, "-")
     ELSE /\ resp' = Envelope(r, FALSE, "close failed")
          /\ UNCHANGED <<pages, page>>
  /\ req' = [req EXCEPT ![r] = DoneReq]
  /\ UNCHANGED <<boot, browserContext, ctxState, launches, isShuttingDown, sd>>
  /\ UNCHANGED call

\* the `close` event of a page reaches the client: its listener runs
page_onClose ==
  /\ Quiet
  /\ chan # <<>>
  /\ Head(chan).k = "close"
  /\ chan' = Tail(chan)
  /\ pages' = onClose(pages, Head(chan).who)
  /\ page' = [page EXCEPT ![Head(chan).who].lis = NoId]
  /\ UNCHANGED <<boot, browserContext, ctxState, launches, isShuttingDown,
                 sd, req, resp>>
  /\ UNCHANGED call

\* somebody closes the tab of page h in the browser window
ExternalClose(h) ==
  /\ Quiet
  /\ page[h].st = "open"
  /\ page' = [page EXCEPT ![h] = closedPage(h)]
  /\ chan' = chan \o closeEvent(h)
  /\ UNCHANGED <<boot, browserContext, ctxState, launches, pages, isShuttingDown,
                 sd, req, resp>>
  /\ UNCHANGED call

\* ------------------------------------------------------------- shutdown
\* a sweep that a throwing close() ends (the entry of the page it was
\* closing is still there): straight to the exit timer
sweep_stops(todo, pgs, ctx, pend) ==
  IF sd.pc = "closing" /\ pgs[sd.cur] # NoPage
  THEN sd' = [IdleSd EXCEPT !.pc = "timer"]
  ELSE \/ \E id \in todo :
            /\ pgs[id] # NoPage
            /\ sd' = [pc |-> "closing", todo |-> todo \ {id}, cur |-> id, h |-> pgs[id],
                      pending |-> pend \ {pgs[id]}]
       \/ /\ \A id \in todo : pgs[id] = NoPage
          /\ sd' = IF ctx THEN [IdleSd EXCEPT !.pc = "ctx", !.pending = pend]
                          ELSE [IdleSd EXCEPT !.pc = "timer"]

\* the for-in loop of shutdown() goes on to its next key: a key deleted
\* meanwhile is skipped; after the last key the context is closed if there
\* is one, else the exit timer is set.  The order of the keys is left open.
sweep(todo, pgs, ctx, pend) ==
  \/ \E id \in todo :
       /\ pgs[id] # NoPage
       /\ sd' = [pc |-> "closing", todo |-> todo \ {id}, cur |-> id, h |-> pgs[id],
                 pending |-> pend \ {pgs[id]}]
  \/ /\ \A id \in todo : pgs[id] = NoPage
     /\ sd' = IF ctx THEN [IdleSd EXCEPT !.pc = "ctx", !.pending = pend]
                     ELSE [IdleSd EXCEPT !.pc = "timer"]

\* a shutdown() that does not look at the flag
shutdown_reenters == FALSE

\* if (isShuttingDown) return; at the top of shutdown()
shutdown_returns == isShuttingDown

\* a SIGINT or SIGTERM listener runs shutdown(): a no-op when the flag is
\* set, else it sets the flag and starts closing the pages
shutdown(sig) ==
  /\ Quiet
  /\ IF shutdown_returns
     THEN /\ resp' = [NoResp EXCEPT !.k = "returned", !.error = sig]
          /\ UNCHANGED <<isShuttingDown, sd>>
     ELSE /\ isShuttingDown' = TRUE
          /\ sweep(Keys(pages), pages, browserContext,
                   {pages[id] : id \in Keys(pages)})
          /\ resp' = resp
  /\ UNCHANGED <<boot, browserContext, ctxState, launches, pages, page, req, chan>>
  /\ UNCHANGED call

\* `await pages[pageId].close()` of the sweep resolves (the page is closed,
\* its listener has run, then delete pages[pageId]) or throws (logged)
shutdown_pageClosed(ok) ==
  /\ Quiet
  /\ sd.pc = "closing"
  /\ chan = <<>>
  /\ IF ok
     THEN /\ page' = [page EXCEPT ![sd.h] = closedQuietly(sd.h)]
          /\ pages' = [(IF page[sd.h].st = "open" THEN onClose(pages, sd.h) ELSE pages)
                         EXCEPT ![sd.cur] = NoPage]
     ELSE UNCHANGED <<page, pages>>
  /\ sweep(sd.todo, pages', browserContext, sd.pending)
  /\ UNCHANGED <<boot, browserContext, ctxState, launches, isShuttingDown,
                 req, chan, resp>>
  /\ UNCHANGED call

\* `await browserContext.close()` resolves (every page of the context is
\* closed and its listener has run, browserContext = null) or throws
\* (logged); then setTimeout(() => Deno.exit(0), 500)
shutdown_contextClosed(ok) ==
  /\ Quiet
  /\ sd.pc = "ctx"
  /\ chan = <<>>
  /\ IF ok
     THEN /\ ctxState' = "closed"
          /\ browserContext' = FALSE
          /\ page' = [h \in Handles |-> closedQuietly(h)]
          /\ pages' = [id \in PageIds |->
                         IF \E h \in Handles : page[h].st = "open" /\ page[h].lis = id
                         THEN NoPage ELSE pages[id]]
     ELSE UNCHANGED <<ctxState, browserContext, page, pages>>
  /\ sd' = [IdleSd EXCEPT !.pc = "timer"]
  /\ UNCHANGED <<boot, launches, isShuttingDown, req, chan, resp>>
  /\ UNCHANGED call

\* the timer fires: Deno.exit(0)
shutdown_exit ==
  /\ Quiet
  /\ sd.pc = "timer"
  /\ sd' = [IdleSd EXCEPT !.pc = "exited"]
  /\ UNCHANGED <<boot, browserContext, ctxState, launches, pages, page,
                 isShuttingDown, req, chan, resp>>
  /\ UNCHANGED call

\* ---------------------------------------------------------------- system
GoodHeader == [scheme |-> "Bearer ", rest |-> BROWSER_API_TOKEN]

\* authenticated requests on the two routes, with commands for the pages ids
RequestsFor(ids) ==
  {q \in AllRequests :
     /\ q.auth = GoodHeader
     /\ Len(q.path) = 3
     /\ q.path[1] = "api"
     /\ q.path[2] = "browser"
     /\ \/ q.method = "POST" /\ q.path[3] \in ids
        \/ q.method = "GET" /\ isPagesPath(q.path)}

\* a command that closes the page and one that does not
CoreBodies ==
  {b \in Bodies : b.json /\ b.action \in {"title", "closePage"} /\ b.fields = {}}

\* requests being handled
InFlight == {r \in Reqs : req[r].pc \notin {"idle", "done"}}

\* the steps of the service with requests from Q and bodies from B, in the
\* request slots S, at most K of them in flight at a time
NextOf(Q, B, S, K) ==
  \/ setupBrowser
  \/ \E ok \in BOOLEAN : setupBrowser_launched(ok)
  \/ \E ok \in BOOLEAN : setupBrowser_defaultPage(ok)
  \/ \E r \in S, q \in Q :
       \E b \in IF commandRoute(q) THEN B ELSE {NoBody} :
         Cardinality(InFlight) < K /\ handler(S, r, q, b)
  \/ \E r \in S : isPageValid_eval(r)
  \/ \E r \in S : getOrCreatePage_probed(r)
  \/ \E r \in S, ok \in BOOLEAN : getOrCreatePage_newPage(r, ok)
  \/ \E r \in S, ok \in BOOLEAN : getOrCreatePage_initialized(r, ok)
  \/ \E r \in S, out \in Outcomes : executeCommand_done(r, out)
  \/ \E r \in S, ok \in BOOLEAN : closePage_eval(r, ok)
  \/ \E r \in S : closePage_done(r)
  \/ page_onClose
  \/ \E h \in Handles : ExternalClose(h)
  \/ \E sig \in Signals : shutdown(sig)
  \/ \E ok \in BOOLEAN : shutdown_pageClosed(ok)
  \/ \E ok \in BOOLEAN : shutdown_contextClosed(ok)
  \/ shutdown_exit
  \/ Ack

\* commands for one identifier, two of them in flight at a time
Next == NextOf(RequestsFor({"default"}), CoreBodies, Reqs, 2)
Spec == Init /\ [][Next]_vars

\* commands for three identifiers, one after the other
NextSeq == NextOf(RequestsFor(PageIds), CoreBodies, Reqs, 1)
SpecSeq == Init /\ [][NextSeq]_vars

\* commands for tab1 next to the registered default page, two of them in
\* flight at a time
NextTabs == NextOf(RequestsFor({"tab1"}), CoreBodies, Reqs, 2)
SpecTabs == Init /\ [][NextTabs]_vars

\* one command in the run, every kind of request and body, one request at a time
NextHttp == NextOf(AllRequests, Bodies, {1}, 1)
SpecHttp == Init /\ [][NextHttp]_vars

\* one command in the run; the browser answers every call made to it, the
\* exit timer fires, and the event loop runs the handlers of the messages
\* that have arrived and sends the responses
NextLive == NextOf(RequestsFor({"default"}), CoreBodies, {1}, 1)
SpecLive ==
  /\ Init
  /\ [][NextLive]_vars
  /\ SF_vars(\E ok \in BOOLEAN : shutdown_pageClosed(ok))
  /\ SF_vars(\E ok \in BOOLEAN : shutdown_contextClosed(ok))
  /\ SF_vars(shutdown_exit)
  /\ SF_vars(page_onClose)
  /\ SF_vars(getOrCreatePage_probed(1))
  /\ SF_vars(closePage_done(1))
  /\ SF_vars(isPageValid_eval(1))
  /\ SF_vars(\E ok \in BOOLEAN : getOrCreatePage_newPage(1, ok))
  /\ SF_vars(\E ok \in BOOLEAN : getOrCreatePage_initialized(1, ok))
  /\ SF_vars(\E out \in Outcomes : executeCommand_done(1, out))
  /\ SF_vars(\E ok \in BOOLEAN : closePage_eval(1, ok))
  /\ WF_vars(Ack)

\* ------------------------------------------------------------ MCP server
\* the tools of the MCP server that call the browser service
McpTools == {"goto", "click", "fill", "content", "fetch", "closePage", "listPages"}

\* callBrowserApi(pageId, payload): fetch(url, { method: "POST",
\* headers: { "Content-Type": "application/json" }, body })
callBrowserApi(pageId) ==
  [method |-> "POST", path |-> <<"api", "browser", pageId>>, auth |-> NoHeader]

\* the listPages tool: fetch(`${browserServiceBaseUrl}/api/browser/pages`)
listPages == [method |-> "GET", path |-> <<"api", "browser", "pages">>, auth |-> NoHeader]

\* the request a tool call sends
toolRequest(tool, pageId) == IF tool = "listPages" THEN listPages ELSE callBrowserApi(pageId)

McpRequests == {toolRequest(tool, pageId) : tool \in McpTools, pageId \in {"default", "tab1"}}

\* the service with a client that sends the token and the MCP server's tool
\* calls, one request at a time
NextMcp == NextOf(RequestsFor({"default"}) \cup McpRequests, CoreBodies, {1}, 1)
SpecMcp == Init /\ [][NextMcp]_vars

\* ------------------------------------------------- frame-capable commands
\* the frames of a page, main frame first: name() and url() of each
MainFrame == [name |-> "", url |-> "https://shop"]
PayFrame == [name |-> "pay", url |-> "https://pay"]
BlankFrame == [name |-> "", url |-> ""]
PageFrames == {<<MainFrame>>, <<MainFrame, PayFrame>>, <<MainFrame, BlankFrame, PayFrame>>}

\* command.frame: absent, or a string ("(" is no regular expression)
NoFrame == "-"
FrameRefs == {NoFrame, "pay", "shop", "nope", "("}
FrameActions == {"click", "fill", "content", "evaluate"}

\* the message of an error the engine throws from locator.click / locator.fill
\* / frameHandle.content / frameHandle.evaluate
EngineTexts ==
  {"Timeout exceeded. Call log: waiting for frameLocator('nope').locator('#buy')",
   "Timeout exceeded. Call log: waiting for locator('nope').contentFrame().locator('#buy')",
   "Target page, context or browser has been closed"}
EngineOutcomes == {"ok"} \cup EngineTexts

\* error.message.includes("frameLocator")
includesFrameLocator(text) ==
  text = "Timeout exceeded. Call log: waiting for frameLocator('nope').locator('#buy')"

\* new RegExp(frame) throws a SyntaxError
invalidRegExp(frame) == frame = "("

\* new RegExp(frame) matches url
regExpTest(frame, url) ==
  \/ frame = "pay" /\ url = "https://pay"
  \/ frame = "shop" /\ url = "https://shop"

\* page.frames().map(f => f.name() || f.url()).filter(name => name)
RECURSIVE availableFrames(_)
availableFrames(frames) ==
  IF frames = <<>> THEN <<>>
  ELSE LET f == Head(frames)
           name == IF f.name # "" THEN f.name ELSE f.url
       IN  (IF name # "" THEN <<name>> ELSE <<>>) \o availableFrames(Tail(frames))

\* page.frame(frame) || page.frame({ name: frame }): some frame has that name
frameByName(frames, frame) == \E i \in 1..Len(frames) : frames[i].name = frame

\* page.frame({ url: new RegExp(frame) }): some frame's URL matches
frameByUrl(frames, frame) == \E i \in 1..Len(frames) : regExpTest(frame, frames[i].url)

\* what the command returns or throws, before the catch of executeCommand
Returned == [success |-> TRUE, error |-> "-", frame |-> NoFrame, available |-> <<>>]
Thrown(text) == [Returned EXCEPT !.success = FALSE, !.error = text]
\* new Error(`Frame "${command.frame}" not found. Available frames: ${availableFrames}`)
FrameNotFound(frame, frames) ==
  [success |-> FALSE, error |-> "Frame not found. Available frames:", frame |-> frame,
   available |-> availableFrames(frames)]

\* the click and fill branches: the locator call resolves or throws `out`
locatorBranch(frame, frames, out) ==
  IF out = "ok" THEN Returned
  ELSE IF frame # NoFrame /\ includesFrameLocator(out)
       THEN FrameNotFound(frame, frames)
       ELSE Thrown(out)

\* the content branch: out is the outcome of frameHandle.content() / page.content()
contentBranch(frame, frames, out) ==
  IF frame # NoFrame
  THEN IF frameByName(frames, frame)
       THEN IF out = "ok" THEN Returned ELSE Thrown(out)
       ELSE IF invalidRegExp(frame)
            THEN Thrown("Invalid regular expression")
            ELSE IF frameByUrl(frames, frame)
                 THEN IF out = "ok" THEN Returned ELSE Thrown(out)
                 ELSE FrameNotFound(frame, frames)
  ELSE IF out = "ok" THEN Returned ELSE Thrown(out)

\* the evaluate branch
evaluateBranch(frame, frames, out) ==
  IF frame # NoFrame
  THEN IF frameByName(frames, frame)
       THEN IF out = "ok" THEN Returned ELSE Thrown(out)
       ELSE FrameNotFound(frame, frames)
  ELSE IF out = "ok" THEN Returned ELSE Thrown(out)

\* the switch of executeCommand for the frame-capable actions
commandBranch(act, frame, frames, out) ==
  CASE act \in {"click", "fill"} -> locatorBranch(frame, frames, out)
    [] act = "content" -> contentBranch(frame, frames, out)
    [] act = "evaluate" -> evaluateBranch(frame, frames, out)

\* the engine resolves the frame of a click or fill (the iframe element the
\* frame locator selects exists) exactly when `located`; a content or
\* evaluate command resolves it as the branch looks it up
resolvable(act, frame, frames, located) ==
  CASE act \in {"click", "fill"} -> located
    [] act = "content" ->
         frameByName(frames, frame) \/ (~invalidRegExp(frame) /\ frameByUrl(frames, frame))
    [] act = "evaluate" -> frameByName(frames, frame)

\* executeCommand runs a frame-capable command on a page with the frames
\* `frames`; a locator call cannot succeed in a frame the engine cannot resolve
executeCommand_frame(act, frame, frames, located, out) ==
  /\ call = NoCall
  /\ (act \in {"click", "fill"} /\ frame # NoFrame /\ ~located) => out # "ok"
  /\ call' = [f |-> "executeCommand", act |-> act, frame |-> frame, frames |-> frames,
              resolved |-> frame = NoFrame \/ resolvable(act, frame, frames, located),
              engine |-> out,
              envelope |-> commandBranch(act, frame, frames, out)]
  /\ UNCHANGED <<boot, browserContext, ctxState, launches, pages, page,
                 isShuttingDown, sd, req, chan, resp>>

\* the call has returned
call_returns ==
  /\ call # NoCall
  /\ call' = NoCall
  /\ UNCHANGED <<boot, browserContext, ctxState, launches, pages, page,
                 isShuttingDown, sd, req, chan, resp>>

\* command.timeout and params.timeout: absent, or a number of milliseconds
NoTimeout == 0
Timeouts == {NoTimeout, 100, 5000}

\* validated commands, as far as timeouts go
TimedCommands == [action : Actions, timeout : Timeouts, params : Timeouts]

\* the timeout the engine call of each branch is given: goto, click, fill
\* and screenshot pass command.params, the other calls take no options
engineTimeout(command) ==
  IF command.action \in {"goto", "click", "fill", "screenshot"}
  THEN command.params
  ELSE NoTimeout

\* executeCommand issues the engine call of a command
executeCommand_timeout(command) ==
  /\ call = NoCall
  /\ call' = [f |-> "engineCall", command |-> command, timeout |-> engineTimeout(command)]
  /\ UNCHANGED <<boot, browserContext, ctxState, launches, pages, page,
                 isShuttingDown, sd, req, chan, resp>>

\* ------------------------------------------------------ frame paths
\* a frame path is a string, written as the sequence of its pieces: a
\* selector word, one blank, or one '>' character
Blank == " "
Gt == ">"
PathTokens == {"#outer", "#inner", Blank, Gt}
MaxPathLen == 6
FramePaths == UNION {[1..n -> PathTokens] : n \in 0..MaxPathLen}
Selectors == {<<"#buy">>}

\* the place of the first '>>' in s, 0 if there is none
indexOfSep(s) ==
  IF \E i \in 1..(Len(s) - 1) : s[i] = Gt /\ s[i + 1] = Gt
  THEN CHOOSE i \in 1..(Len(s) - 1) :
         /\ s[i] = Gt /\ s[i + 1] = Gt
         /\ \A j \in 1..(i - 1) : ~(s[j] = Gt /\ s[j + 1] = Gt)
  ELSE 0

\* frame.includes('>>')
includesSep(s) == indexOfSep(s) # 0

\* frame.split('>>')
RECURSIVE split(_)
split(s) ==
  LET i == indexOfSep(s)
  IN  IF i = 0 THEN <<s>>
      ELSE <<SubSeq(s, 1, i - 1)>> \o split(SubSeq(s, i + 2, Len(s)))

\* f.trim() left as it is
trim_not(s) == s

\* f.trim()
RECURSIVE trim(_)
trim(s) ==
  IF s = <<>> THEN s
  ELSE IF Head(s) = Blank THEN trim(Tail(s))
  ELSE IF s[Len(s)] = Blank THEN trim(SubSeq(s, 1, Len(s) - 1))
  ELSE s

\* the locator getFrameLocator returns: the selectors of its frameLocator
\* steps, outermost first, and the selector located in the innermost scope.
\* `if (frame)` is false for an absent frame and for the empty string alike;
\* both are written <<>>
getFrameLocator(selector, frame) ==
  IF frame # <<>>
  THEN IF includesSep(frame)
       THEN LET frames == split(frame)
            IN  [frames |-> [i \in 1..Len(frames) |-> trim(frames[i])], selector |-> selector]
       ELSE [frames |-> <<frame>>, selector |-> selector]
  ELSE [frames |-> <<>>, selector |-> selector]

\* getFrameLocator is called with a selector and a frame path
getFrameLocator_call(selector, frame) ==
  /\ call = NoCall
  /\ call' = [f |-> "getFrameLocator", selector |-> selector, frame |-> frame,
              out |-> getFrameLocator(selector, frame)]
  /\ UNCHANGED <<boot, browserContext, ctxState, launches, pages, page,
                 isShuttingDown, sd, req, chan, resp>>

\* the frames of a page in page.frames() order, the main frame first: the
\* name, the URL, the frame selectors its iframe element matches, and the
\* frame whose document holds that element (0 for the main frame)
ShopDom ==
  << [name |-> <<>>, url |-> <<"https://shop/">>, css |-> {}, parent |-> 0],
     [name |-> <<"outerFrame">>, url |-> <<"https://shop/", "outer">>,
      css |-> {<<"#outer">>, <<"iframe">>}, parent |-> 1],
     [name |-> <<"innerFrame">>, url |-> <<"https://shop/", "inner">>,
      css |-> {<<"#inner">>, <<"iframe">>}, parent |-> 2] >>
PlainDom ==
  << [name |-> <<>>, url |-> <<"https://shop/">>, css |-> {}, parent |-> 0],
     [name |-> <<"iframe">>, url |-> <<"about:blank">>,
      css |-> {<<"iframe">>}, parent |-> 1] >>
Doms == {ShopDom, PlainDom}

\* command.frame as the documentation writes it: a name, an id, a CSS
\* selector, a nested path, and a piece of a frame's URL
DocPaths ==
  {<<"outerFrame">>, <<"innerFrame">>, <<"#outer">>, <<"#inner">>, <<"iframe">>, <<"outer">>,
   <<"outerFrame", Blank, Gt, Gt, Blank, "innerFrame">>,
   <<"#outer", Blank, Gt, Gt, Blank, "#inner">>}

\* no frame
NoScope == 0

\* scope.frameLocator(sel) of the engine: the one iframe element in the
\* document of frame `cur` that the selector matches
frameLocator(dom, cur, sel) ==
  LET found == {i \in 1..Len(dom) : dom[i].parent = cur /\ trim(sel) \in dom[i].css}
  IN  IF cur # NoScope /\ Cardinality(found) = 1 THEN CHOOSE i \in found : TRUE ELSE NoScope

\* the frame a chain of frameLocator steps ends in, starting from the page
RECURSIVE descend(_, _, _)
descend(dom, cur, steps) ==
  IF steps = <<>> THEN cur
  ELSE descend(dom, frameLocator(dom, cur, Head(steps)), Tail(steps))

\* the frame getFrameLocator's locator looks the selector up in
resolverScope(dom, frame) == descend(dom, 1, getFrameLocator(<<"#buy">>, frame).frames)

\* page.frame(frame) || page.frame({ name: frame }) of the engine: the first
\* frame with that name
pageFrameByName(dom, frame) ==
  LET found == {i \in 1..Len(dom) : dom[i].name = frame}
  IN  IF found = {} THEN NoScope ELSE CHOOSE i \in found : \A j \in found : i <= j

\* new RegExp(frame).test(url) for a frame string without special characters
regExpFound(frame, url) ==
  \E i \in 0..(Len(url) - Len(frame)) : SubSeq(url, i + 1, i + Len(frame)) = frame

\* page.frame({ url: new RegExp(frame) }) of the engine
pageFrameByUrl(dom, frame) ==
  LET found == {i \in 1..Len(dom) : regExpFound(frame, dom[i].url)}
  IN  IF found = {} THEN NoScope ELSE CHOOSE i \in found : \A j \in found : i <= j

\* the frame each branch of executeCommand acts in
commandScope(act, frame, dom) ==
  CASE act \in {"click", "fill"} -> descend(dom, 1, getFrameLocator(<<"#buy">>, frame).frames)
    [] act = "content" ->
         IF pageFrameByName(dom, frame) # NoScope THEN pageFrameByName(dom, frame)
         ELSE pageFrameByUrl(dom, frame)
    [] act = "evaluate" -> pageFrameByName(dom, frame)

\* executeCommand runs a frame-capable command with a frame field
executeCommand_scope(act, frame, dom) ==
  /\ call = NoCall
  /\ call' = [f |-> "commandScope", act |-> act, frame |-> frame, dom |-> dom,
              scope |-> commandScope(act, frame, dom)]
  /\ UNCHANGED <<boot, browserContext, ctxState, launches, pages, page,
                 isShuttingDown, sd, req, chan, resp>>

NextFrames ==
  \/ \E act \in FrameActions, frame \in FrameRefs, frames \in PageFrames,
        located \in BOOLEAN, out \in EngineOutcomes :
       executeCommand_frame(act, frame, frames, located, out)
  \/ \E command \in TimedCommands : executeCommand_timeout(command)
  \/ \E selector \in Selectors, frame \in FramePaths : getFrameLocator_call(selector, frame)
  \/ \E act \in FrameActions, frame \in DocPaths, dom \in Doms :
       executeCommand_scope(act, frame, dom)
  \/ call_returns
SpecFrames == Init /\ [][NextFrames]_vars

\* --------------------------------------------------------- configuration
\* keys of envSchema: a number, a string, a boolean flag, the required
\* token, two enums and two JSON arrays
ConfigKeys ==
  {"PORT", "PROFILE_DIR", "HEADLESS", "BROWSER_API_TOKEN", "APP_ENV", "LOG_LEVEL",
   "IGNORE_DEFAULT_ARGS", "BROWSER_ARGS"}

\* a variable that is not set / a flag that is not given
Unset == "<unset>"
\* a flag given without a value (--headless)
Bare == "<flag>"

\* the text of an environment variable or of a flag's value, per key
PortTexts == {"9999", "0080"}
DirTexts == {"/env/profile", "007"}
FlagTexts == {"true", "false"}
\* a token of 32 characters
TokenTexts == {"0123456789abcdef0123456789abcdef"}
\* a JSON array of browser arguments
ArgsTexts == {"[\"--mute-audio\"]"}

\* the environment: each variable unset or set to a text
Envs ==
  [PORT : PortTexts \cup {Unset}, PROFILE_DIR : DirTexts \cup {Unset},
   HEADLESS : FlagTexts \cup {Unset}, BROWSER_API_TOKEN : TokenTexts \cup {Unset},
   APP_ENV : {Unset}, LOG_LEVEL : {Unset}, IGNORE_DEFAULT_ARGS : {Unset},
   BROWSER_ARGS : ArgsTexts \cup {Unset}]

\* the command line: each flag missing or given with a text, --headless also bare
Argvs ==
  [PORT : PortTexts \cup {Unset}, PROFILE_DIR : DirTexts \cup {Unset},
   HEADLESS : FlagTexts \cup {Unset, Bare}, BROWSER_API_TOKEN : {Unset},
   APP_ENV : {Unset}, LOG_LEVEL : {Unset}, IGNORE_DEFAULT_ARGS : {Unset},
   BROWSER_ARGS : {Unset}]

\* the schema defaults
DefaultPort == 8888
DefaultProfileDir == "~/.config/playwright/profile"
DefaultHeadless == FALSE
DefaultAppEnv == "development"
DefaultLogLevel == "debug"
DefaultIgnoreDefaultArgs == <<"--enable-automation">>
DefaultBrowserArgs ==
  <<"--no-default-browser-check", "--disable-blink-features=AutomationControlled",
    "--disable-features=site-per-process", "--disable-extensions",
    "--disable-component-extensions-with-background-pages", "--disable-default-apps",
    "--no-sandbox", "--disable-translate", "--use-fake-device-for-media-stream",
    "--use-fake-ui-for-media-stream">>

\* parseArgs reads a value that looks like a number as a number
isNumber(text) == text \in {"9999", "0080", "80", "007", "7"}

\* String(Number(text))
numberString(text) ==
  CASE text = "0080" -> "80"
    [] text = "007" -> "7"
    [] OTHER -> text

\* String(rawArgs[cliKey]): the value parseArgs produced (true for a bare
\* flag, a number for numeric text, else the text), as a string
cliString(text) ==
  IF text = Bare THEN "true"
  ELSE IF isNumber(text) THEN numberString(text) ELSE text

\* parseCliArguments(args): the flags given, as strings, under their env keys
parseCliArguments(argv) ==
  [k \in ConfigKeys |-> IF argv[k] = Unset THEN Unset ELSE cliString(argv[k])]

\* getRawEnvVars(env): the variables of the schema that are set
getRawEnvVars(env) == [k \in ConfigKeys |-> env[k]]

\* { ...rawEnvVars, ...cliArgs }
mergeRaw(rawEnvVars, cliArgs) ==
  [k \in ConfigKeys |-> IF cliArgs[k] # Unset THEN cliArgs[k] ELSE rawEnvVars[k]]

\* z.coerce.number() on a text
coerceNumber(text) ==
  CASE text = "9999" -> 9999
    [] text \in {"0080", "80"} -> 80
    [] text \in {"007", "7"} -> 7
    [] OTHER -> 0

\* presets.booleanFlag() on a text
booleanFlag(text) == text = "true"

\* jsonTransformer(defaultValue)(text): JSON.parse of the text
jsonTransformer(text) == IF text = "[\"--mute-audio\"]" THEN <<"--mute-audio">> ELSE <<>>

\* the schema's conversion of each key, the default for a missing key
validated(raw) ==
  [exit |-> FALSE,
   PORT |-> IF raw["PORT"] = Unset THEN DefaultPort ELSE coerceNumber(raw["PORT"]),
   PROFILE_DIR |-> IF raw["PROFILE_DIR"] = Unset THEN DefaultProfileDir
                   ELSE raw["PROFILE_DIR"],
   HEADLESS |-> IF raw["HEADLESS"] = Unset THEN DefaultHeadless
                ELSE booleanFlag(raw["HEADLESS"]),
   BROWSER_API_TOKEN |-> raw["BROWSER_API_TOKEN"],
   APP_ENV |-> IF raw["APP_ENV"] = Unset THEN DefaultAppEnv ELSE raw["APP_ENV"],
   LOG_LEVEL |-> IF raw["LOG_LEVEL"] = Unset THEN DefaultLogLevel ELSE raw["LOG_LEVEL"],
   IGNORE_DEFAULT_ARGS |-> IF raw["IGNORE_DEFAULT_ARGS"] = Unset
                           THEN DefaultIgnoreDefaultArgs
                           ELSE jsonTransformer(raw["IGNORE_DEFAULT_ARGS"]),
   BROWSER_ARGS |-> IF raw["BROWSER_ARGS"] = Unset THEN DefaultBrowserArgs
                    ELSE jsonTransformer(raw["BROWSER_ARGS"])]

\* validateEnv(envSchema, { env, exitOnError: true }): BROWSER_API_TOKEN has
\* no default, so without it the validation fails and the process exits
\* (no configuration is returned: `exit`)
validateEnv(raw) ==
  IF raw["BROWSER_API_TOKEN"] = Unset
  THEN [validated(raw) EXCEPT !.exit = TRUE]
  ELSE validated(raw)

\* getConfig({ env, args })
getConfig(env, argv) ==
  validateEnv(mergeRaw(getRawEnvVars(env), parseCliArguments(argv)))

\* validated configurations, and partial ones: the keys in `has`
EnvConfigs ==
  [PORT : {DefaultPort, 9999}, PROFILE_DIR : {DefaultProfileDir, "/env/profile"},
   HEADLESS : BOOLEAN]
CliConfigs ==
  [has : SUBSET ConfigKeys, PORT : {7777}, PROFILE_DIR : {"/cli/profile", "/env/profile"},
   HEADLESS : BOOLEAN]

\* mergeConfiguration(envConfig, cliArgs): { ...envConfig, ...cliArgs }
mergeConfiguration(envConfig, cliArgs) ==
  [PORT |-> IF "PORT" \in cliArgs.has THEN cliArgs.PORT ELSE envConfig.PORT,
   PROFILE_DIR |-> IF "PROFILE_DIR" \in cliArgs.has THEN cliArgs.PROFILE_DIR
                   ELSE envConfig.PROFILE_DIR,
   HEADLESS |-> IF "HEADLESS" \in cliArgs.has THEN cliArgs.HEADLESS
                ELSE envConfig.HEADLESS]

\* a process calls getConfig with its environment and arguments
getConfig_call(env, argv) ==
  /\ call = NoCall
  /\ call' = [f |-> "getConfig", env |-> env, argv |-> argv, out |-> getConfig(env, argv)]
  /\ UNCHANGED <<boot, browserContext, ctxState, launches, pages, page,
                 isShuttingDown, sd, req, chan, resp>>

mergeConfiguration_call(envConfig, cliArgs) ==
  /\ call = NoCall
  /\ call' = [f |-> "mergeConfiguration", env |-> envConfig, cli |-> cliArgs,
              out |-> mergeConfiguration(envConfig, cliArgs)]
  /\ UNCHANGED <<boot, browserContext, ctxState, launches, pages, page,
                 isShuttingDown, sd, req, chan, resp>>

\* ------------------------------------------------------ token generator
\* --length as Number(flags.length) reads it: NaN, or an integer up to
\* MaxLengthArg
MaxLengthArg == 136
LengthArgs == {[nan |-> TRUE, n |-> 0]} \cup [nan : {FALSE}, n : 0..MaxLengthArg]

\* the byte lengths main accepts
MinBytes == 16
MaxBytes == 128

\* z.string().min(32) of BROWSER_API_TOKEN
MinTokenLength == 32

\* the length of btoa's output for n bytes: four characters for every three
\* bytes, the last group filled up with '='
btoaLength(n) == 4 * (n \div 3) + (IF n % 3 = 0 THEN 0 ELSE 4)

\* the '=' characters at the end of btoa's output
btoaPadding(n) == IF n % 3 = 0 THEN 0 ELSE 3 - (n % 3)

\* the length of the token generateSecureToken(length) returns: '+' and '/'
\* are replaced one for one, the '=' are removed
generateSecureToken(length) == btoaLength(length) - btoaPadding(length)

\* main of the token generator with --length: exit 1 for NaN and for a
\* length outside 16..128, else the token is generated and printed
main(lengthArg) ==
  IF lengthArg.nan THEN [exit |-> TRUE, bytes |-> 0, token |-> 0]
  ELSE IF lengthArg.n >= MinBytes /\ lengthArg.n <= MaxBytes
  THEN [exit |-> FALSE, bytes |-> lengthArg.n, token |-> generateSecureToken(lengthArg.n)]
  ELSE [exit |-> TRUE, bytes |-> 0, token |-> 0]

\* the token generator is run
main_call(lengthArg) ==
  /\ call = NoCall
  /\ call' = [f |-> "main", lengthArg |-> lengthArg, out |-> main(lengthArg)]
  /\ UNCHANGED <<boot, browserContext, ctxState, launches, pages, page,
                 isShuttingDown, sd, req, chan, resp>>

NextConfig ==
  \/ \E env \in Envs, argv \in Argvs : getConfig_call(env, argv)
  \/ \E envConfig \in EnvConfigs, cliArgs \in CliConfigs :
       mergeConfiguration_call(envConfig, cliArgs)
  \/ \E lengthArg \in LengthArgs : main_call(lengthArg)
  \/ call_returns
SpecConfig == Init /\ [][NextConfig]_vars

\* ---------------------------------------------------------------- claims
\* request r has its page: getOrCreatePage has returned to executeCommand
HasPage(r) == req[r].pc \in {"engine", "closing"}

\* the step resumes getOrCreatePage of request r after its probe
ProbeResumes(r) == req[r].pc = "probed" /\ req'[r].pc # "probed"

\* the step resumes the closePage command of request r after page.close()
ClosePageReturns(r) == req[r].pc = "closed" /\ req'[r].pc = "done"

\* C1: when the probe of the registered handle reports it valid,
\* getOrCreatePage returns that same handle, which stays the registry entry
\* of the identifier, and the browser is asked for no new page.
C1_Reuse ==
  [][\A r \in Reqs :
       (ProbeResumes(r) /\ Head(chan).ok) =>
         /\ HasPage(r)'
         /\ req'[r].h = req[r].h
         /\ pages'[req[r].id] = req[r].h
         /\ page' = page]_vars

\* a second command for tab1 runs on the page the first one created
C1_Witness ==
  \E r \in Reqs :
    /\ req[r].pc = "engine"
    /\ req[r].via = "reuse"
    /\ req[r].id = "tab1"
    /\ pages["tab1"] = req[r].h
    /\ page[req[r].h].lis = "tab1"

\* C2: a handle that a successful closePage closed is never a registry entry
\* again and is never returned by getOrCreatePage again; at the success of
\* closePage the identifier has no entry, so that the next getOrCreatePage
\* for it creates a new page.  The default page is included.
C2_ClosedHandleGone ==
  [][/\ \A id \in PageIds : pages'[id] # NoPage => ~page'[pages'[id]].cmd
     /\ \A r \in Reqs :
          /\ (~HasPage(r) /\ HasPage(r)') => ~page'[req'[r].h].cmd
          /\ (ClosePageReturns(r) /\ resp'.success) => pages'[req[r].id] = NoPage]_vars

\* the default page was closed by closePage and a later command for
\* "default" runs on a page created for it
C2_Witness ==
  \E r \in Reqs : \E g \in Handles :
    /\ page[g].cmd
    /\ page[g].lis = NoId
    /\ HasPage(r)
    /\ req[r].id = "default"
    /\ req[r].via = "create"
    /\ req[r].h # g
    /\ pages["default"] = req[r].h

\* C3: when the probe of the registered handle fails, getOrCreatePage evicts
\* the entry and asks for a new page without answering the caller; once the
\* new page is initialized it is the registry entry and the command runs on
\* it; the caller never gets the error of a missing page.
C3_StaleReplaced ==
  [][/\ \A r \in Reqs :
          /\ (ProbeResumes(r) /\ ~Head(chan).ok) =>
               /\ pages'[req[r].id] = NoPage
               /\ req'[r].pc = "newPage"
               /\ resp' = resp
          /\ (req[r].pc = "init" /\ req[r].via = "replace" /\ HasPage(r)') =>
               /\ req'[r].h = req[r].h
               /\ pages'[req[r].id] = req[r].h
               /\ page'[req[r].h].st = "open"
               /\ page[req[r].h].lis = NoId
     /\ (resp'.k = "response" /\ resp'.via = "replace") => resp'.error # "Cannot read properties of undefined"]_vars

\* the default page was closed in the browser window; the command that found
\* it stale runs on the page that replaced it
C3_Witness ==
  \E r \in Reqs :
    /\ req[r].pc = "engine"
    /\ req[r].via = "replace"
    /\ pages[req[r].id] = req[r].h
    /\ page[req[r].h].st = "open"
    /\ \E g \in Handles : g # req[r].h /\ page[g].st = "closed" /\ ~page[g].cmd

\* no command for identifier x is being handled
NoneFor(x) == \A r \in Reqs : req[r].pc \in {"idle", "done"} \/ req[r].id # x

\* C4: when closePage(x) succeeds x has no registry entry, and x stays
\* without entry as long as no command for x is handled: a listing of the
\* pages does not contain x.
C4_ClosedNotListed ==
  [][\A x \in PageIds :
       /\ (\E r \in Reqs : ClosePageReturns(r) /\ req[r].id = x /\ resp'.success) =>
            x \notin Keys(pages')
       /\ (boot = "serving" /\ x \notin Keys(pages) /\ NoneFor(x) /\ NoneFor(x)') =>
            x \notin Keys(pages')
       /\ (resp'.k = "response" /\ resp'.q.method = "GET" /\ resp'.status = 200) =>
            resp'.list = Keys(pages')]_vars

\* closePage closed the default page, which has no close listener, and the
\* listing that follows is empty
C4_Witness ==
  /\ resp.k = "response"
  /\ resp.q.method = "GET"
  /\ resp.list = {}
  /\ \E g \in Handles : page[g].cmd /\ page[g].lis = NoId /\ page[g].st = "closed"
  /\ ~isShuttingDown

\* how far shutdown() has come
sdRank(pc) ==
  CASE pc = "none" -> 0
    [] pc = "closing" -> 1
    [] pc = "ctx" -> 2
    [] pc = "timer" -> 3
    [] pc = "exited" -> 4

\* C5: shutdown() is idempotent.  A call that finds the flag set returns
\* without touching anything; the one close sequence only moves forward
\* (pages, then the context, then the exit timer) whatever a close call
\* answers: every registry key is swept at most once, the context is
\* closed at most once and the exit is scheduled once.
C5_ShutdownOnce ==
  [][/\ resp'.k = "returned" =>
          UNCHANGED <<boot, browserContext, ctxState, launches, pages, page,
                      isShuttingDown, sd, req, chan>>
     /\ sd' # sd =>
          /\ isShuttingDown'
          /\ sdRank(sd.pc) <= sdRank(sd'.pc)
          /\ sd.pc = "none" => ~isShuttingDown
          /\ (sd.pc = "closing" /\ sd'.pc = "closing") =>
               (sd'.cur \in sd.todo /\ sd'.todo \subseteq sd.todo \ {sd'.cur})
          /\ sd.pc = "ctx" => sd'.pc = "timer"
          /\ sd.pc = "timer" => sd'.pc = "exited"
     /\ ctxState = "closed" => ctxState' = "closed"
     /\ (ctxState' = "closed" /\ ctxState # "closed") => sd.pc = "ctx"]_vars

\* the second signal arrives while the first shutdown() is suspended at the
\* close() of a page
C5_Witness ==
  /\ resp.k = "returned"
  /\ sd.pc = "closing"
  /\ page[sd.h].st = "open"

\* the step is a run of the HTTP handler: it answers the request or hands
\* the command to executeCommand and waits
HandlerStep == resp.k = "none" /\ resp'.k \in {"response", "accepted"} /\ resp'.q # NoRequest

\* C6: the flag is never reset, and once it is set a command that reaches
\* executeCommand is answered at once with the failure "Server is shutting
\* down": no request starts getOrCreatePage, and registry, pages and the
\* traffic with the browser stay as they are.
C6_RejectWhenShuttingDown ==
  [][/\ isShuttingDown => isShuttingDown'
     /\ isShuttingDown => \A r \in Reqs : req[r].pc = "idle" => req'[r].pc = "idle"
     /\ (isShuttingDown /\ HandlerStep /\ resp'.dispatched) =>
          /\ resp'.k = "response"
          /\ ~resp'.success
          /\ resp'.error = "Server is shutting down"
          /\ UNCHANGED <<pages, page, req, chan, browserContext, ctxState>>]_vars

\* a command posted while the sweep is closing a page is refused
C6_Witness ==
  /\ resp.k = "response"
  /\ resp.error = "Server is shutting down"
  /\ resp.act = "title"
  /\ sd.pc = "closing"
  /\ pages["default"] # NoPage

\* the body is JSON, has an action tag of the schema and every field the
\* variant of that action requires
WellFormed(b) ==
  /\ b.json
  /\ b.action \in {"goto", "click", "fill", "screenshot", "content", "title",
                    "evaluate", "closePage"}
  /\ b.action = "goto" => "url" \in b.fields
  /\ b.action = "click" => "selector" \in b.fields
  /\ b.action = "fill" => {"selector", "text"} \subseteq b.fields
  /\ b.action = "evaluate" => "expression" \in b.fields

\* C7: a body that lacks a field its action requires, or has no valid
\* action tag, is answered with status 400 without reaching executeCommand:
\* no request is started and registry, pages and the traffic with the
\* browser stay as they are.
C7_InvalidBodyRejected ==
  [][(HandlerStep /\ resp'.body # NoBody /\ ~WellFormed(resp'.body)) =>
       /\ resp'.k = "response"
       /\ resp'.status = 400
       /\ ~resp'.dispatched
       /\ UNCHANGED <<pages, page, req, chan>>]_vars

\* a fill command without its text is answered with 400
C7_Witness ==
  /\ resp.k = "response"
  /\ resp.status = 400
  /\ resp.body.json
  /\ resp.body.action = "fill"
  /\ resp.body.fields = {"selector"}
  /\ pages["default"] # NoPage

\* C8: a request to a path that begins with /api/ without the header
\* `Bearer <BROWSER_API_TOKEN>` is answered with status 401 before the
\* routes and before its body is read; it does not reach executeCommand and
\* the registry is neither listed nor changed.
C8_Unauthorized ==
  [][(/\ HandlerStep
      /\ Len(resp'.q.path) >= 2
      /\ resp'.q.path[1] = "api"
      /\ resp'.q.auth # [scheme |-> "Bearer ", rest |-> BROWSER_API_TOKEN]) =>
       /\ resp'.k = "response"
       /\ resp'.status = 401
       /\ ~resp'.dispatched
       /\ resp'.body = NoBody
       /\ resp'.list = {}
       /\ UNCHANGED <<pages, page, req, chan>>]_vars

\* a command for tab1 with a wrong token is answered with 401
C8_Witness ==
  /\ resp.k = "response"
  /\ resp.status = 401
  /\ resp.q.method = "POST"
  /\ resp.q.path = <<"api", "browser", "tab1">>
  /\ resp.q.auth = [scheme |-> "Bearer ", rest |-> "wrong"]
  /\ pages["default"] # NoPage

\* the pages open in the browser that getOrCreatePage created for identifier x
CreatedFor(x) == {h \in Handles : page[h].st = "open" /\ page[h].lis = x}

\* the listing is answered after commands created tab1 and tab2, no page
\* having been closed since the start
ListedAfterTwoTabs ==
  /\ resp.k = "response"
  /\ resp.q.method = "GET"
  /\ resp.status = 200
  /\ CreatedFor("tab1") # {}
  /\ CreatedFor("tab2") # {}
  /\ \A h \in Handles : page[h].st # "closed"

\* C9 (as stated): the listing after the creation of tab1 and tab2 on a
\* fresh service is exactly {tab1, tab2}.
C9_OnlyTabs == ListedAfterTwoTabs => resp.list = {"tab1", "tab2"}

\* C9 (amended): the listing after the creation of tab1 and tab2 on a fresh
\* service is success with exactly {default, tab1, tab2}: the page created
\* at start-up is registered as "default" and listed with the others.
C9_TabsAndDefault ==
  ListedAfterTwoTabs => (resp.success /\ resp.list = {"default", "tab1", "tab2"})

\* the listing answered after two commands created tab1 and tab2
C9_Witness ==
  /\ ListedAfterTwoTabs
  /\ pages["tab1"] \in CreatedFor("tab1")
  /\ pages["tab2"] \in CreatedFor("tab2")
  /\ \A r \in Reqs : req[r].pc = "done"

\* C10: an authenticated POST to /api/browser/{pageId} with a body that is
\* a command reaches executeCommand, and whatever envelope executeCommand
\* returns is sent with status 200; status 400 is sent only for a body that
\* is no JSON or no command.
C10_Status200 ==
  [][/\ (/\ HandlerStep
          /\ resp'.q.method = "POST"
          /\ Len(resp'.q.path) = 3
          /\ resp'.q.path[1] = "api"
          /\ resp'.q.path[2] = "browser"
          /\ resp'.q.auth = [scheme |-> "Bearer ", rest |-> BROWSER_API_TOKEN]
          /\ WellFormed(resp'.body)) => resp'.dispatched
     /\ (resp'.k = "response" /\ resp'.dispatched) => resp'.status = 200
     /\ (resp'.k = "response" /\ resp'.status = 400) =>
          (~resp'.dispatched /\ resp'.body # NoBody /\ ~WellFormed(resp'.body))]_vars

\* the request is a POST whose path is exactly /api/browser/{pageId}
ExactCommandRoute(q) ==
  /\ q.method = "POST"
  /\ Len(q.path) = 3
  /\ q.path[1] = "api"
  /\ q.path[2] = "browser"
  /\ q.path[3] # ""

\* C11: a request with the right token reaches executeCommand only when it
\* is a POST to exactly /api/browser/{pageId}; any other request than that
\* and GET /api/browser/pages is answered with status 404, reaches no
\* command and leaves the registry as it is.
C11_ExactRouteOnly ==
  [][(HandlerStep /\ resp'.q.auth = [scheme |-> "Bearer ", rest |-> BROWSER_API_TOKEN]) =>
       /\ resp'.dispatched => ExactCommandRoute(resp'.q)
       /\ (~ExactCommandRoute(resp'.q)
             /\ ~(resp'.q.method = "GET" /\ resp'.q.path = <<"api", "browser", "pages">>)) =>
            /\ resp'.k = "response"
            /\ resp'.status = 404
            /\ UNCHANGED <<pages, page, req, chan>>]_vars

\* the step ends the command of request r
Returns(r) == req[r].pc \notin {"idle", "done"} /\ req'[r].pc = "done"

\* C12: executeCommand never throws.  Every command that was started ends
\* with an envelope, which names the error when it is a failure (no
\* context, newPage or initializePage failed, the page is missing, the
\* engine call or close() threw, shutting down); no step of a command ends
\* the process, sets the shutdown flag or moves shutdown().
C12_NeverThrows ==
  [][/\ \A r \in Reqs :
          Returns(r) =>
            /\ resp'.k = "response"
            /\ resp'.dispatched
            /\ resp'.success \/ resp'.error # "-"
     /\ (HandlerStep /\ resp'.dispatched /\ resp'.k = "response") =>
          (~resp'.success /\ resp'.error # "-")
     /\ (req' # req \/ (HandlerStep /\ resp'.dispatched)) =>
          UNCHANGED <<boot, isShuttingDown, sd, browserContext, ctxState>>]_vars

\* initializePage failed for a new page and the command got a failure
\* envelope while the service goes on
C12_Witness ==
  /\ resp.k = "response"
  /\ resp.dispatched
  /\ ~resp.success
  /\ resp.error = "initializePage failed"
  /\ boot = "serving"
  /\ ~isShuttingDown
  /\ sd.pc = "none"

\* C13: shutdown() works in order.  The flag is set before the sweep calls
\* the first close(); the close of the context is called only when every
\* page that was in the registry when shutdown() began has had its close()
\* called by the sweep or is closed already; the context is closed in that
\* stage only, and the exit is scheduled only after it (or without any
\* open context).
C13_ShutdownOrder ==
  [][/\ sd'.pc # "none" => isShuttingDown'
     /\ (sd.pc = "none" /\ sd'.pc # "none") => ~isShuttingDown
     /\ (sd'.pc = "ctx" /\ sd.pc # "ctx") => \A h \in sd'.pending : page'[h].st # "open"
     /\ (ctxState' = "closed" /\ ctxState # "closed") => sd.pc = "ctx"
     /\ (sd'.pc = "timer" /\ sd.pc # "timer") => (sd.pc = "ctx" \/ ctxState # "open")
     /\ (sd'.pc = "exited" /\ sd.pc # "exited") => sd.pc = "timer"]_vars

\* the close() the sweep called on the open page sd.h threw: the sweep goes
\* on and the page is still open
SweepCloseThrew ==
  /\ sd.pc = "closing"
  /\ sd' # sd
  /\ page[sd.h].st = "open"
  /\ page'[sd.h].st = "open"

\* C14: when the close() of a page throws during the sweep, shutdown() goes
\* on as after a close that succeeded: to the close() of another key of
\* the sweep that is still registered, and when there is none to the close
\* of the context (then to the exit timer); the process is not ended by the
\* failure and the entry of the page stays.
C14_SweepContinues ==
  [][SweepCloseThrew =>
       /\ \/ /\ sd'.pc = "closing"
             /\ sd'.cur \in sd.todo
             /\ sd'.h = pages'[sd'.cur]
             /\ sd'.h # NoPage
          \/ /\ sd'.pc = IF browserContext THEN "ctx" ELSE "timer"
             /\ \A id \in sd.todo : pages'[id] = NoPage
       /\ UNCHANGED <<boot, isShuttingDown, pages, page, req, chan>>]_vars

\* the close() of the default page threw (it is open and registered, the
\* sweep is past it) and the sweep is closing the page of tab1
C14_Witness ==
  /\ sd.pc = "closing"
  /\ sd.cur = "tab1"
  /\ "default" \notin sd.todo
  /\ pages["default"] # NoPage
  /\ page[pages["default"]].st = "open"
  /\ page[pages["default"]].lis = NoId

\* C15: once a signal has started shutdown(), the process eventually exits
\* through the exit timer of shutdown(), with code 0.
C15_EventuallyExits == isShuttingDown ~> (sd.pc = "exited")

\* C16: one browser session per process.  launchPersistentContext is called
\* at most once, by setupBrowser at start-up when there is no context; no
\* step of a request launches or replaces the context; a context that
\* shutdown() closed stays closed and the module variable stays null.
C16_SingleLaunch ==
  [][/\ launches' <= 1
     /\ launches' # launches => (boot = "start" /\ ~browserContext /\ launches = 0)
     /\ (browserContext' /\ ~browserContext) => (boot = "launching" /\ ctxState = "none")
     /\ (ctxState' = "open" /\ ctxState # "open") => (boot = "launching" /\ ctxState = "none")
     /\ ctxState = "closed" => (ctxState' = "closed" /\ ~browserContext')
     /\ (req' # req \/ HandlerStep) => UNCHANGED <<launches, browserContext, ctxState>>]_vars

\* shutdown() has closed the only context; a command that arrives then is
\* refused and nothing is launched
C16_Witness ==
  /\ launches = 1
  /\ ctxState = "closed"
  /\ ~browserContext
  /\ resp.k = "response"
  /\ resp.dispatched
  /\ resp.error = "Server is shutting down"

\* C17: a closePage command for an identifier without registry entry is
\* answered at once with success, and no step of a closePage command makes
\* the browser create a page: it issues no engine call and leaves registry
\* and pages as they are.
C17_CloseAbsentIdempotent ==
  [][/\ (HandlerStep /\ resp'.dispatched /\ resp'.act = "closePage"
           /\ pages[resp'.id] = NoPage /\ ~isShuttingDown) =>
          /\ resp'.k = "response"
          /\ resp'.success
          /\ UNCHANGED <<pages, page, req, chan>>
     /\ \A r \in Reqs :
          (req[r].act = "closePage" /\ req'[r] # req[r]) =>
            \A h \in Handles : page[h].st = "none" => page'[h].st = "none"]_vars

\* C18: a click, fill, content or evaluate command whose frame cannot be
\* resolved on the page fails with the frame-not-found error that lists the
\* names (or URLs) of the frames of the page, whatever the engine's error says.
C18_FramesListed ==
  (call.f = "executeCommand" /\ ~call.resolved) =>
    /\ ~call.envelope.success
    /\ call.envelope.error = "Frame not found. Available frames:"
    /\ call.envelope.frame = call.frame
    /\ call.envelope.available = availableFrames(call.frames)

\* C19: a request the MCP server sends (callBrowserApi for a tool call, or
\* the listPages request) passes the token gate of the service: it is never
\* answered 401, and a tool's command reaches executeCommand.
C19_McpAuthorized ==
  [][(HandlerStep /\ resp'.q \in McpRequests) =>
       /\ resp'.status # 401
       /\ resp'.q.method = "POST" => (resp'.k = "accepted" \/ resp'.dispatched)]_vars

\* the text that decides key k: the flag's when given, else the variable's
chosenText(env, argv, k) == IF argv[k] # Unset THEN argv[k] ELSE env[k]

\* C20: getConfig returns for each key the value of the flag when the flag
\* is given, otherwise of the environment variable when it is set, otherwise
\* the default, each as the schema converts it; mergeConfiguration replaces
\* exactly the keys of the CLI part and equals the env part when that is empty.
C20_Precedence ==
  /\ (call.f = "getConfig" /\ ~call.out.exit) =>
       LET port == chosenText(call.env, call.argv, "PORT")
           dir == chosenText(call.env, call.argv, "PROFILE_DIR")
           flag == chosenText(call.env, call.argv, "HEADLESS")
       IN  /\ call.out.PORT = IF port = Unset THEN DefaultPort ELSE coerceNumber(port)
           /\ call.out.PROFILE_DIR = IF dir = Unset THEN DefaultProfileDir ELSE dir
           /\ call.out.HEADLESS = IF flag = Unset THEN DefaultHeadless
                                  ELSE (flag = Bare \/ booleanFlag(flag))
  /\ call.f = "mergeConfiguration" =>
       /\ call.out.PORT = IF "PORT" \in call.cli.has THEN call.cli.PORT ELSE call.env.PORT
       /\ call.out.PROFILE_DIR = IF "PROFILE_DIR" \in call.cli.has
                                 THEN call.cli.PROFILE_DIR ELSE call.env.PROFILE_DIR
       /\ call.out.HEADLESS = IF "HEADLESS" \in call.cli.has
                              THEN call.cli.HEADLESS ELSE call.env.HEADLESS
       /\ call.cli.has = {} => call.out = call.env

\* getConfig was called with nothing set in the environment and no flag
EmptyCall ==
  /\ call.f = "getConfig"
  /\ \A k \in ConfigKeys : call.env[k] = Unset /\ call.argv[k] = Unset

\* C21: with an empty environment and no flags getConfig returns (the
\* process does not exit) the defaults: development, debug, 8888, not
\* headless, ["--enable-automation"], ["--no-default-browser-check"].
C21_Defaults ==
  EmptyCall =>
    /\ ~call.out.exit
    /\ call.out.APP_ENV = "development"
    /\ call.out.LOG_LEVEL = "debug"
    /\ call.out.PORT = 8888
    /\ call.out.HEADLESS = FALSE
    /\ call.out.IGNORE_DEFAULT_ARGS = <<"--enable-automation">>
    /\ call.out.BROWSER_ARGS = <<"--no-default-browser-check">>

\* C22: while a closePage command waits to resume after page.close(), and
\* the browser has closed its page, no identifier of the registry maps to
\* that page: closing and evicting leave no state between them that another
\* request could see.
C22_CloseEvictAtomic ==
  \A r \in Reqs :
    (req[r].pc = "closed" /\ page[req[r].h].st = "closed") =>
      \A id \in PageIds : pages[id] # req[r].h

\* C23: the page a command gets from getOrCreatePage, and issues its engine
\* call on, is open at that moment, also when its tab was closed in the
\* browser while the command was in flight.
C23_CallOnOpenHandle ==
  [][\A r \in Reqs :
       (~HasPage(r) /\ HasPage(r)') => page'[req'[r].h].st = "open"]_vars

\* C24: getOrCreatePage inserts the page it created whatever the registry
\* holds by then: the entry becomes the later page, the page another request
\* inserted meanwhile is in no entry any more, and no page is closed by that.
C24_LaterInsertWins ==
  [][\A r \in Reqs :
       (req[r].pc = "init" /\ HasPage(r)') =>
         /\ pages'[req[r].id] = req'[r].h
         /\ \A g \in Handles : page'[g].st = page[g].st
         /\ pages[req[r].id] # NoPage =>
              \A id \in PageIds : pages'[id] # pages[req[r].id]]_vars

\* two commands for one identifier both found no entry and created a page:
\* the registry holds the later one, the earlier one is open and in no entry
C24_Witness ==
  \E r1, r2 \in Reqs :
    /\ r1 # r2
    /\ req[r1].id = req[r2].id
    /\ req[r1].via = "create" /\ req[r2].via = "create"
    /\ HasPage(r1) /\ HasPage(r2)
    /\ req[r1].h # req[r2].h
    /\ pages[req[r2].id] = req[r2].h
    /\ page[req[r1].h].st = "open" /\ page[req[r2].h].st = "open"
    /\ page[req[r1].h].lis = req[r1].id
    /\ \A id \in PageIds : pages[id] # req[r1].h

\* C25: an identifier whose page has been closed in the browser leaves the
\* registry (as long as the process runs) without any further command: the
\* close notification of the page evicts it.
C25_ExternalCloseEvicts ==
  \A id \in PageIds :
    (pages[id] # NoPage /\ page[pages[id]].st = "closed") ~> (pages[id] = NoPage \/ ~Alive)

\* C26: initializePage has been called exactly once with every page of the
\* registry and with every page a command has got from getOrCreatePage.
C26_InitializedOnce ==
  /\ \A id \in PageIds : pages[id] # NoPage => page[pages[id]].init = 1
  /\ \A r \in Reqs : HasPage(r) => page[req[r].h].init = 1

\* C27: an entry of the registry is only ever set to a page that newPage
\* has just returned to the inserting request (or to setupBrowser) and that
\* was in no entry before; a page that has left the registry stays out.
C27_HandlesNotReused ==
  [][\A id \in PageIds :
       (pages'[id] # pages[id] /\ pages'[id] # NoPage) =>
         /\ ~page[pages'[id]].reg
         /\ \A i \in PageIds : pages[i] # pages'[id]
         /\ \/ boot = "defaulting" /\ page[pages'[id]].st = "none"
            \/ \E r \in Reqs : req[r].pc = "init" /\ req[r].h = pages'[id]
                                 /\ req[r].id = id]_vars

\* the first default page has left the registry and is closed; default is
\* registered again, with another page
C27_Witness ==
  /\ page[1].reg
  /\ page[1].st = "closed"
  /\ pages["default"] \notin {NoPage, 1}
  /\ page[pages["default"]].st = "open"

\* C28: the engine call of a command that carries the top-level timeout
\* field is given that timeout, whatever the action.
C28_TimeoutPassedThrough ==
  (call.f = "engineCall" /\ call.command.timeout # NoTimeout) =>
    call.timeout = call.command.timeout

\* what is left of a string when its blanks are taken out
RECURSIVE withoutBlanks(_)
withoutBlanks(s) ==
  IF s = <<>> THEN <<>>
  ELSE (IF Head(s) = Blank THEN <<>> ELSE <<Head(s)>>) \o withoutBlanks(Tail(s))

\* the segments put together again with '>>' between them, blanks left out
RECURSIVE joined(_)
joined(segs) ==
  IF Len(segs) = 1 THEN withoutBlanks(segs[1])
  ELSE withoutBlanks(segs[1]) \o <<Gt, Gt>> \o joined(Tail(segs))

\* no blank at either end
trimmed(s) == s = <<>> \/ (Head(s) # Blank /\ s[Len(s)] # Blank)

\* the steps are the segments of the path, trimmed and in order
segmentsOf(steps, frame) ==
  /\ Len(steps) >= 1
  /\ \A i \in 1..Len(steps) : trimmed(steps[i])
  /\ joined(steps) = withoutBlanks(frame)

\* C30 as stated: without a frame path the selector is located on the page
\* itself; with a frame path the frameLocator steps are the path's segments,
\* each trimmed, in order, and the selector is located in the innermost frame.
C30_EverySegmentTrimmed ==
  call.f = "getFrameLocator" =>
    /\ call.out.selector = call.selector
    /\ call.frame = <<>> => call.out.frames = <<>>
    /\ call.frame # <<>> => segmentsOf(call.out.frames, call.frame)

\* C30 as the code has it: without a frame path (absent or empty) the
\* selector is located on the page itself; a path that contains '>>' is
\* descended segment by segment, each segment trimmed, in order; a path
\* without '>>' is one frameLocator step with the path exactly as given.
C30_FrameLocatorSteps ==
  call.f = "getFrameLocator" =>
    /\ call.out.selector = call.selector
    /\ call.frame = <<>> => call.out.frames = <<>>
    /\ (call.frame # <<>> /\ ~includesSep(call.frame)) => call.out.frames = <<call.frame>>
    /\ includesSep(call.frame) => segmentsOf(call.out.frames, call.frame)

\* a nested path whose segments are padded with blanks was resolved to two steps
C30_Witness ==
  /\ call.f = "getFrameLocator"
  /\ call.frame = <<"#outer", Blank, Gt, Gt, Blank, "#inner">>
  /\ call.out.frames = << <<"#outer">>, <<"#inner">> >>

\* C29: a frame-capable command with a frame field acts in the frame that
\* getFrameLocator resolves the frame string to, so the same frame string
\* designates the same frame for click, fill, content and evaluate.
C29_SameScope ==
  call.f = "commandScope" => call.scope = resolverScope(call.dom, call.frame)

\* C31: every command the HTTP handler hands to executeCommand has one of
\* the eight actions of the schema, so the switch never reaches its default
\* branch: no response reports 'Unsupported action'.
C31_SupportedActionOnly ==
  /\ resp.error # "Unsupported action"
  /\ resp.dispatched =>
       resp.act \in {"goto", "click", "fill", "screenshot", "content", "title",
                      "evaluate", "closePage"}
  /\ \A r \in Reqs : req[r].pc \notin {"idle", "done"} =>
       req[r].act \in {"goto", "click", "fill", "screenshot", "content", "title",
                        "evaluate", "closePage"}

\* a request whose body validated has gone through the switch and is answered
C31_Witness ==
  /\ resp.k = "response"
  /\ resp.dispatched
  /\ resp.status = 200
  /\ resp.success
  /\ resp.act = "evaluate"
  /\ resp.via = "reuse"

\* C32: shutdown starts on a termination signal only.  The flag is set by
\* the step of a SIGINT or SIGTERM listener and by no other step; the
\* browser context is closed (and the module variable cleared) only by the
\* shutdown that such a signal started; a step that handles an answer or an
\* event of the browser (a failed probe, a close notification, an engine
\* error, a page creation that failed) or a launch that failed leaves the
\* flag, shutdown() and the context as they are.
C32_ShutdownOnSignalOnly ==
  [][/\ (isShuttingDown' /\ ~isShuttingDown) =>
          \E sig \in {"SIGINT", "SIGTERM"} : shutdown(sig)
     /\ (sd.pc = "none" /\ sd'.pc # "none") =>
          \E sig \in {"SIGINT", "SIGTERM"} : shutdown(sig)
     /\ (ctxState' = "closed" /\ ctxState # "closed") => (isShuttingDown /\ sd.pc = "ctx")
     /\ (browserContext /\ ~browserContext') => (isShuttingDown /\ sd.pc = "ctx")
     /\ (req' # req \/ chan' # chan \/ (boot' = "crashed" /\ boot # "crashed")) =>
          UNCHANGED <<isShuttingDown, sd, ctxState, browserContext>>]_vars

\* the probe of a registered page has failed, the entry is evicted and a new
\* page is being created, and the service is not shutting down
C32_Witness ==
  /\ \E r \in Reqs : req[r].pc = "newPage" /\ req[r].via = "replace"
  /\ pages["default"] = NoPage
  /\ ~isShuttingDown
  /\ sd.pc = "none"
  /\ browserContext
  /\ ctxState = "open"

\* C33: no command is dispatched for a request without the header
\* `Bearer <BROWSER_API_TOKEN>`, whatever its path is: every request the
\* command route takes has passed the token check.
C33_NoUnauthenticatedDispatch ==
  [][(HandlerStep /\ resp'.dispatched) =>
       resp'.q.auth = [scheme |-> "Bearer ", rest |-> BROWSER_API_TOKEN]]_vars

\* C34: the close notification of page h removes a registry entry only if
\* the entry maps to h; an identifier bound to another page meanwhile keeps
\* its entry.
C34_CloseEvictsOwnEntry ==
  [][(chan # <<>> /\ Head(chan).k = "close" /\ chan' = Tail(chan)) =>
       \A id \in PageIds :
         (pages[id] # NoPage /\ pages'[id] # pages[id]) => pages[id] = Head(chan).who]_vars

\* C35: the delete of a closePage command removes only the handle that
\* command closed: a page another command registered under the identifier
\* while page.close() was awaited is still registered when closePage returns.
C35_CloseDeletesOwnHandle ==
  [][\A r \in Reqs :
       (chan # <<>> /\ Head(chan).k = "closed" /\ Head(chan).who = r /\ chan' = Tail(chan)) =>
         (pages[req[r].id] # req[r].h => pages'[req[r].id] = pages[req[r].id])]_vars

\* C36: no orphan pages.  While the browser context is open, every open
\* page the service created is the registry's value for an identifier (a
\* page whose getOrCreatePage has not yet come to the insertion excepted).
C36_NoOrphanPages ==
  ctxState = "open" =>
    \A h \in Handles :
      (page[h].st = "open" /\ ~\E r \in Reqs : req[r].pc = "init" /\ req[r].h = h) =>
        \E id \in PageIds : pages[id] = h

\* C37: once shutdown() has set the flag of the serving service, no page is
\* created in the browser and no entry is inserted into the registry, also
\* not by a command that passed the check of the flag before it was set.
C37_NoPageAfterFlag ==
  [][(isShuttingDown /\ boot = "serving") =>
       /\ \A h \in Handles : page[h].st = "none" => page'[h].st = "none"
       /\ \A id \in PageIds : pages'[id] # pages[id] => pages'[id] = NoPage]_vars

\* C38: when shutdown() comes to its end and sets the exit timer, no
\* browser session is open and none is being launched.
C38_ExitWithoutSession ==
  [][(sd'.pc = "timer" /\ sd.pc # "timer") =>
       (ctxState' # "open" /\ boot' # "launching")]_vars

\* C39: a command other than closePage that finds its page registered and
\* valid runs its action on that page and leaves the registry as it is,
\* whether the engine action succeeds or fails: no step of the command
\* evicts, replaces or inserts an entry.
C39_CommandKeepsRegistry ==
  [][\A r \in Reqs :
       /\ (/\ chan # <<>> /\ Head(chan).k = "probe" /\ Head(chan).who = r /\ Head(chan).ok
           /\ chan' = Tail(chan)
           /\ req[r].act # "closePage") =>
            /\ pages' = pages
            /\ pages[req[r].id] # NoPage =>
                 (req'[r].pc = "engine" /\ req'[r].h = pages[req[r].id])
       /\ (req[r].pc = "engine" /\ req[r].via = "reuse" /\ req'[r] # req[r]) =>
            pages' = pages]_vars

\* the engine action of a command on the registered default page has failed
\* and the page is still registered and open
C39_Witness ==
  /\ resp.k = "response"
  /\ resp.dispatched
  /\ resp.act = "title"
  /\ resp.via = "reuse"
  /\ ~resp.success
  /\ resp.error = "engine error"
  /\ pages["default"] # NoPage
  /\ page[pages["default"]].st = "open"

\* C40: for every byte length the token generator accepts, the token it
\* prints is long enough for the BROWSER_API_TOKEN check of the
\* configuration schema (at least 32 characters).
C40_TokenLongEnough ==
  (call.f = "main" /\ ~call.out.exit) => call.out.token >= MinTokenLength

====
